---- MODULE Spec2Model ----
(***************************************************************************)
(* Model of src/example.py: the retrying transaction executor              *)
(* run_transaction, the sample unit of work transfer_funds and the call    *)
(* that main makes.                                                        *)
(*                                                                         *)
(* The session (conn) is the external collaborator. It is modelled by the  *)
(* interface the executor relies on (comments at lines 77-78 and 89-91):   *)
(*   - conn.transaction() opens a scope that commits on a clean exit and   *)
(*     rolls back when left with an exception;                             *)
(*   - conn.rollback() aborts the current transaction;                     *)
(*   - the connection is not in autocommit mode (line 118), so a statement *)
(*     executed while no transaction is open starts one.                   *)
(* Restrictions that a particular driver version may put on calling        *)
(* rollback() inside a transaction() block are not part of this model, and *)
(* the session is idle when run_transaction is called.                     *)
(***************************************************************************)
EXTENDS Integers, Sequences, FiniteSets, TLC

\* ---------------------------------------------------------------- bounds
MaxRetriesBound == 3      \* max_retries ranges over -1..MaxRetriesBound
MaxConflicts == 3         \* the database plans at most this many leading conflicts
RandBits == 3             \* random.random() has this many bits (53 in CPython)
MaxCalls == 2             \* run_transaction is called at most this many times

\* ------------------------------------------------------ program constants
DefaultMaxRetries == 3    \* def run_transaction(conn, op, max_retries=3)
MainAmount == 100         \* amount = 100
Statements == 3           \* transfer_funds executes SELECT, UPDATE, UPDATE

RECURSIVE Pow2(_)
Pow2(n) == IF n <= 0 THEN 1 ELSE 2 * Pow2(n - 1)

\* ------------------------------------------------------------- exceptions
\* Python's class hierarchy of the exceptions involved: each class with its
\* base classes (psycopg.errors.SerializationFailure derives from
\* psycopg.Error).
Bases(cls) ==
    CASE cls = "SerializationFailure" -> {"SerializationFailure", "Error", "Exception"}
      [] cls = "Error"                -> {"Error", "Exception"}
      [] cls = "RuntimeError"         -> {"RuntimeError", "Exception"}
      [] cls = "ValueError"           -> {"ValueError", "Exception"}
      [] OTHER                        -> {}

IsInstance(e, cls) == cls \in Bases(e)

\* ---------------------------------------------------------------- accounts
\* create_accounts: ids = [id1, id2]; id1 is inserted with 1000, id2 with 250.
ids == <<1, 2>>

Accounts == {ids[i] : i \in 1..Len(ids)}

\* Rows the table holds besides the two created (CREATE TABLE IF NOT EXISTS
\* keeps an existing table and its rows).
Bystanders == {3}

InitialBalances ==
    [a \in Accounts \cup Bystanders |->
        IF a = ids[1] THEN 1000 ELSE IF a = ids[2] THEN 250 ELSE 500]

\* list.pop(): removes and returns the last element.
PopFront(s) == [val |-> s[1], rest |-> SubSeq(s, 2, Len(s))]

Pop(s) == [val |-> s[Len(s)], rest |-> SubSeq(s, 1, Len(s) - 1)]

\* main: toId = ids.pop(); fromId = ids.pop()
toId == Pop(ids).val

fromId == Pop(Pop(ids).rest).val

Amounts == {MainAmount, 300}

\* ------------------------------------------------------------- the retry loop
\* for retry in range(1, max_retries + 1): the value after `cur` exists iff
\* it is below the stop value.
RangeHasNextShort(cur, max) == cur + 1 < max

RangeHasNextLong(cur, max) == cur + 1 < max + 2

RangeHasNext(cur, max) == cur + 1 < max + 1

\* The try statement of run_transaction: where control goes after op(conn)
\* ended with exception e ("None": it returned). The except clauses are
\* tried in order; an exception no clause matches leaves the with block.
HandlerFatalRetried(e) ==
    IF e = "None" THEN "return"
    ELSE IF IsInstance(e, "Error") THEN "except_serialization"
    ELSE "exit"

HandlerNoReturn(e) ==
    IF e = "None" THEN "for"
    ELSE IF IsInstance(e, "SerializationFailure") THEN "except_serialization"
    ELSE IF IsInstance(e, "Error") THEN "except_error"
    ELSE "exit"

HandlerContinues(e) ==
    IF e = "None" THEN "return"
    ELSE IF IsInstance(e, "SerializationFailure") THEN "for"
    ELSE IF IsInstance(e, "Error") THEN "except_error"
    ELSE "exit"

HandlerNoRollback(e) ==
    IF e = "None" THEN "return"
    ELSE IF IsInstance(e, "SerializationFailure") THEN "sleep"
    ELSE IF IsInstance(e, "Error") THEN "except_error"
    ELSE "exit"

HandlerCatchAll(e) ==
    IF e = "None" THEN "return"
    ELSE IF IsInstance(e, "Exception") THEN "except_serialization"
    ELSE "exit"

Handler(e) ==
    IF e = "None" THEN "return"
    ELSE IF IsInstance(e, "SerializationFailure") THEN "except_serialization"
    ELSE IF IsInstance(e, "Error") THEN "except_error"
    ELSE "exit"

\* with conn.transaction(): what leaving the block does to the transaction.
TransactionExitCommits(e) == "commit"

TransactionExitLeaves(e) == IF e = "None" THEN "commit" ELSE "leave"

TransactionExit(e) == IF e = "None" THEN "commit" ELSE "rollback"

\* Where run_transaction ends when the with block is left with exception e
\* ("None": none): the scope exit is outside the try statement, so no except
\* clause of run_transaction sees what it raises.
ExitToRetries(e) ==
    IF e = "None" THEN "returned"
    ELSE IF IsInstance(e, "SerializationFailure") THEN "except_serialization"
    ELSE "raised"

ExitTo(e) == IF e = "None" THEN "returned" ELSE "raised"

\* main's try statement around run_transaction (lines 128-138): where main
\* goes when the call ended with exception e ("None": it returned), and what
\* it logs. ValueError is logged and passed over; a psycopg.Error is logged
\* and raised again; anything else leaves the try statement unhandled. What
\* leaves it reaches the except Exception clause of line 143.
MainHandlerSwallowsAll(e) ==
    IF e = "None" THEN [pc |-> "main_continue", log |-> <<>>]
    ELSE [pc |-> "main_continue", log |-> <<<<"debug", e>>>>]

MainHandler(e) ==
    IF e = "None" THEN [pc |-> "main_continue", log |-> <<>>]
    ELSE IF IsInstance(e, "ValueError")
         THEN [pc |-> "main_continue", log |-> <<<<"debug", e>>>>]
    ELSE IF IsInstance(e, "Error")
         THEN [pc |-> "main_outer", log |-> <<<<"debug", e>>>>]
    ELSE [pc |-> "main_outer", log |-> <<>>]

\* ------------------------------------------------------------------ backoff
\* random.random() returns k / RandUnit for k in Random.
RandUnit == Pow2(RandBits)

Random == 0..(RandUnit - 1)

\* random.random() + 0.5 in floating point with RandBits significant bits,
\* in units of 1/RandUnit. Below 1.0 the sum is exact; from 1.0 on the
\* spacing of the floats is two units and the sum is rounded to nearest,
\* ties to even.
AddHalf(k) ==
    LET s == k + RandUnit \div 2 IN
    IF s < RandUnit \/ s % 2 = 0 THEN s
    ELSE IF (s + 1) % 4 = 0 THEN s + 1
    ELSE s - 1

\* sleep_seconds = (2**retry) * 0.1 * (random.random() + 0.5), in units of
\* 0.1/RandUnit seconds.
\* The factor (2**retry) * 0.1 of the delay, in units of 0.1 seconds.
BackoffBaseFromZero(n) == Pow2(n - 1)

BackoffBase(n) == Pow2(n)

SleepSecondsTimes(n, k) == (2 * n) * AddHalf(k)

SleepSeconds(n, k) == BackoffBase(n) * AddHalf(k)

\* The rest of the SerializationFailure handler after the rollback: it
\* computes the delay from the attempt number and the random draw, sleeps,
\* and falls through to the next iteration of the loop.
BackoffGivesUp(n, k) ==
    [delay |-> SleepSeconds(n, k),
     pc    |-> IF 2 * k >= RandUnit THEN "exit" ELSE "for"]

Backoff(n, k) == [delay |-> SleepSeconds(n, k), pc |-> "for"]

\* ----------------------------------------------------------- transfer_funds
\* transfer_funds(conn, frm, to, amount) on the table bal, when the database
\* makes statement number p fail with `fault` ("None": no statement fails).
\* Returns the table as the statements left it and the exception raised.
TransferFundsNoWhere(bal, f, t, amt, fault, p) ==
    IF fault /= "None" /\ p = 1 THEN [bal |-> bal, exc |-> fault]
    ELSE IF bal[f] < amt THEN [bal |-> bal, exc |-> "RuntimeError"]
    ELSE IF fault /= "None" /\ p = 2 THEN [bal |-> bal, exc |-> fault]
    ELSE LET debited == [bal EXCEPT ![f] = @ - amt] IN
         IF fault /= "None" /\ p = 3 THEN [bal |-> debited, exc |-> fault]
         ELSE [bal |-> [a \in DOMAIN debited |-> debited[a] + amt],
               exc |-> "None"]

TransferFunds(bal, f, t, amt, fault, p) ==
    IF fault /= "None" /\ p = 1 THEN [bal |-> bal, exc |-> fault]
    ELSE IF bal[f] < amt THEN [bal |-> bal, exc |-> "RuntimeError"]
    ELSE IF fault /= "None" /\ p = 2 THEN [bal |-> bal, exc |-> fault]
    ELSE LET debited == [bal EXCEPT ![f] = @ - amt] IN
         IF fault /= "None" /\ p = 3 THEN [bal |-> debited, exc |-> fault]
         ELSE [bal |-> [debited EXCEPT ![t] = @ + amt], exc |-> "None"]

VARIABLES
    balances,       \* the accounts table as the session sees it
    snapshot,       \* the table when the open transaction started
    openTx,         \* number of transactions open on the session
    max_retries,    \* run_transaction's parameter
    frm, to, amount,\* the arguments of transfer_funds bound by the lambda
    plan,           \* the database's behaviour: the first plan.k invocations
                    \* hit a serialization failure, the later ones plan.final
    pc,             \* position of the caller / run_transaction
    retry,          \* the loop variable of run_transaction
    exc,            \* the exception in flight ("None": none); after the
                    \* call, the exception it ended with
    exc_arg,        \* the number named in the ValueError's message
    invocations,    \* calls of op(conn) in the current call
    sleeps,         \* calls of time.sleep in the current call
    rollbacks,      \* calls of conn.rollback() in the current call
    writes,         \* rows updated by op in the current call
    begins,         \* transaction scopes entered in the current call
    commits,        \* commits by the scope exit in the current call
    scopeRollbacks, \* rollbacks at the scope exit in the current call
    sleep_seconds,  \* the last delay slept: attempt number and duration
    hist,           \* outcome of each invocation of op in the current call
    entry,          \* the table when the current call started
    call,           \* number of calls of run_transaction so far
    prev,           \* <<hist and events of the previous call, and whether
                    \* its last delay was long>>, or <<>>
    output          \* what main logged and did after the call, in order

vars == <<balances, snapshot, openTx, max_retries, frm, to, amount, plan, pc,
          retry, exc, exc_arg, invocations, sleeps, rollbacks, writes,
          begins, commits, scopeRollbacks, sleep_seconds, hist, entry, call,
          prev, output>>

params == <<max_retries, frm, to, amount, plan>>

Finals == {"None", "Error", "SerializationFailure", "CommitConflict"}

\* The behaviours of the database: plan.k serialization failures, then
\* plan.final on every later invocation. A database that always fails to
\* serialize is written with k = 0. With "CommitConflict" the later
\* invocations meet no fault and the database reports the serialization
\* failure when the transaction commits.
Plans ==
    {pl \in [k : 0..MaxConflicts, final : Finals] :
        pl.final = "SerializationFailure" => pl.k = 0}

Terminal == pc \in {"returned", "raised"}

\* The fault the database injects into invocation number i of a call.
PlannedFault(i) ==
    IF i <= plan.k THEN "SerializationFailure"
    ELSE IF plan.final = "CommitConflict" THEN "None"
    ELSE plan.final

\* The exception the commit at the scope exit ends with.
CommitFault ==
    IF plan.final = "CommitConflict" THEN "SerializationFailure" ELSE "None"

\* Whether the last delay of the call was at least its un-jittered value.
SleptLong ==
    sleeps > 0 /\ sleep_seconds.dur >= BackoffBase(sleep_seconds.n) * RandUnit

\* What a call did, as far as control flow goes.
Events ==
    [invocations |-> invocations, sleeps |-> sleeps, rollbacks |-> rollbacks,
     begins |-> begins, commits |-> commits, scopeRollbacks |-> scopeRollbacks,
     exc |-> exc, pc |-> pc]

Init ==
    /\ balances = InitialBalances
    /\ snapshot = InitialBalances
    /\ openTx = 0
    /\ max_retries \in ((-1)..MaxRetriesBound) \cup {DefaultMaxRetries}
    /\ frm \in Accounts
    /\ to \in Accounts \ {frm}
    /\ amount \in Amounts
    /\ plan \in Plans
    /\ pc = "start"
    /\ retry = 0
    /\ exc = "None"
    /\ exc_arg = 0
    /\ invocations = 0
    /\ sleeps = 0
    /\ rollbacks = 0
    /\ writes = 0
    /\ begins = 0
    /\ commits = 0
    /\ scopeRollbacks = 0
    /\ sleep_seconds = [n |-> 0, dur |-> 0]
    /\ hist = <<>>
    /\ entry = InitialBalances
    /\ call = 0
    /\ prev = <<>>
    /\ output = <<>>

\* run_transaction(conn, op, max_retries) is called: line 79 enters the
\* transaction scope, which begins a transaction.
Call ==
    /\ pc \in {"start", "returned", "raised"}
    /\ call < MaxCalls
    /\ call' = call + 1
    /\ prev' = IF call = 0 THEN <<>> ELSE <<[hist |-> hist, events |-> Events,
                                            long |-> SleptLong]>>
    /\ entry' = balances
    /\ openTx' = openTx + 1
    /\ snapshot' = balances
    /\ begins' = 1
    /\ retry' = 0
    /\ exc' = "None"
    /\ exc_arg' = 0
    /\ invocations' = 0
    /\ sleeps' = 0
    /\ rollbacks' = 0
    /\ writes' = 0
    /\ commits' = 0
    /\ scopeRollbacks' = 0
    /\ sleep_seconds' = [n |-> 0, dur |-> 0]
    /\ hist' = <<>>
    /\ pc' = "for"
    /\ UNCHANGED <<balances, params, output>>

\* line 80: the for statement takes the next value of the range.
ForNext ==
    /\ pc = "for"
    /\ RangeHasNext(retry, max_retries)
    /\ retry' = retry + 1
    /\ pc' = "try"
    /\ UNCHANGED <<balances, snapshot, openTx, params, exc, exc_arg,
                   invocations, sleeps, rollbacks, writes, begins, commits,
                   scopeRollbacks, sleep_seconds, hist, entry, call, prev, output>>

\* lines 104-105: the range is used up; raise ValueError naming max_retries.
RaiseValueError ==
    /\ pc = "for"
    /\ ~RangeHasNext(retry, max_retries)
    /\ exc' = "ValueError"
    /\ exc_arg' = max_retries
    /\ pc' = "exit"
    /\ UNCHANGED <<balances, snapshot, openTx, params, retry,
                   invocations, sleeps, rollbacks, writes, begins, commits,
                   scopeRollbacks, sleep_seconds, hist, entry, call, prev, output>>

\* line 82: op(conn), that is transfer_funds(conn, fromId, toId, amount).
\* Its first statement starts a transaction when none is open.
Op ==
    /\ pc = "try"
    /\ \E p \in 1..Statements :
         LET res == TransferFunds(balances, frm, to, amount,
                                  PlannedFault(invocations + 1), p) IN
         /\ balances' = res.bal
         /\ exc' = res.exc
         /\ hist' = Append(hist, res.exc)
         /\ pc' = Handler(res.exc)
         /\ writes' = writes + Cardinality({a \in DOMAIN balances :
                                              res.bal[a] /= balances[a]})
    /\ snapshot' = IF openTx = 0 THEN balances ELSE snapshot
    /\ openTx' = IF openTx = 0 THEN 1 ELSE openTx
    /\ invocations' = invocations + 1
    /\ UNCHANGED <<params, retry, exc_arg, sleeps, rollbacks, begins, commits,
                   scopeRollbacks, sleep_seconds, entry, call, prev, output>>

\* line 86: return.
Return ==
    /\ pc = "return"
    /\ pc' = "exit"
    /\ UNCHANGED <<balances, snapshot, openTx, params, retry, exc, exc_arg,
                   invocations, sleeps, rollbacks, writes, begins, commits,
                   scopeRollbacks, sleep_seconds, hist, entry, call, prev, output>>

\* lines 88-93: except SerializationFailure: conn.rollback().
Rollback ==
    /\ pc = "except_serialization"
    /\ balances' = IF openTx > 0 THEN snapshot ELSE balances
    /\ openTx' = IF openTx > 0 THEN openTx - 1 ELSE 0
    /\ rollbacks' = rollbacks + 1
    /\ pc' = "sleep"
    /\ UNCHANGED <<snapshot, params, retry, exc, exc_arg, invocations, sleeps,
                   writes, begins, commits, scopeRollbacks, sleep_seconds,
                   hist, entry, call, prev, output>>

\* lines 95-97: compute the delay and sleep; the exception is handled.
Sleep ==
    /\ pc = "sleep"
    /\ \E k \in Random :
         LET b == Backoff(retry, k) IN
         /\ sleep_seconds' = [n |-> retry, dur |-> b.delay]
         /\ pc' = b.pc
         /\ exc' = IF b.pc = "for" THEN "None" ELSE exc
    /\ sleeps' = sleeps + 1
    /\ UNCHANGED <<balances, snapshot, openTx, params, retry, exc_arg,
                   invocations, rollbacks, writes, begins, commits,
                   scopeRollbacks, hist, entry, call, prev, output>>

\* lines 99-102: except psycopg.Error: raise e.
Reraise ==
    /\ pc = "except_error"
    /\ pc' = "exit"
    /\ UNCHANGED <<balances, snapshot, openTx, params, retry, exc, exc_arg,
                   invocations, sleeps, rollbacks, writes, begins, commits,
                   scopeRollbacks, sleep_seconds, hist, entry, call, prev, output>>

\* line 79, leaving the with block: commit, or roll back when an exception
\* is in flight; then run_transaction returns or raises. A commit that the
\* database refuses leaves the transaction rolled back and raises.
ScopeExit ==
    /\ pc = "exit"
    /\ LET how == TransactionExit(exc)
           failed == IF how = "commit" THEN CommitFault ELSE "None"
           undone == how = "rollback" \/ failed /= "None"
           out == IF failed /= "None" THEN failed ELSE exc IN
         /\ balances' = IF undone /\ openTx > 0 THEN snapshot ELSE balances
         /\ openTx' = IF how \in {"commit", "rollback"} /\ openTx > 0
                      THEN openTx - 1 ELSE openTx
         /\ commits' = IF how = "commit" /\ failed = "None"
                       THEN commits + 1 ELSE commits
         /\ scopeRollbacks' = IF undone THEN scopeRollbacks + 1
                              ELSE scopeRollbacks
         /\ exc' = out
         /\ pc' = ExitTo(out)
    /\ UNCHANGED <<snapshot, params, retry, exc_arg, invocations, sleeps,
                   rollbacks, writes, begins, sleep_seconds, hist, entry,
                   call, prev, output>>

\* lines 128-138: run_transaction has returned or raised into main's try
\* statement.
MainTry ==
    /\ Terminal
    /\ LET h == MainHandler(exc) IN
         /\ pc' = h.pc
         /\ output' = output \o h.log
    /\ UNCHANGED <<balances, snapshot, openTx, params, retry, exc, exc_arg,
                   invocations, sleeps, rollbacks, writes, begins, commits,
                   scopeRollbacks, sleep_seconds, hist, entry, call, prev>>

\* lines 140-142: print_balances(conn); delete_accounts(conn). DELETE FROM
\* accounts empties the table; it starts a transaction when none is open.
MainContinue ==
    /\ pc = "main_continue"
    /\ output' = output \o <<<<"print_balances", balances>>,
                             <<"delete_accounts", "DELETE">>>>
    /\ snapshot' = IF openTx = 0 THEN balances ELSE snapshot
    /\ openTx' = IF openTx = 0 THEN 1 ELSE openTx
    /\ balances' = [a \in {} |-> 0]
    /\ pc' = "main_done"
    /\ UNCHANGED <<params, retry, exc, exc_arg, invocations, sleeps,
                   rollbacks, writes, begins, commits, scopeRollbacks,
                   sleep_seconds, hist, entry, call, prev>>

\* lines 143-146: except Exception: log two fatal messages and return.
MainOuterExcept ==
    /\ pc = "main_outer"
    /\ output' = output \o <<<<"fatal", "database connection failed">>,
                             <<"fatal", exc>>>>
    /\ pc' = "main_done"
    /\ UNCHANGED <<balances, snapshot, openTx, params, retry, exc, exc_arg,
                   invocations, sleeps, rollbacks, writes, begins, commits,
                   scopeRollbacks, sleep_seconds, hist, entry, call, prev>>

Next ==
    \/ Call
    \/ ForNext
    \/ RaiseValueError
    \/ Op
    \/ Return
    \/ Rollback
    \/ Sleep
    \/ Reraise
    \/ ScopeExit
    \/ MainTry
    \/ MainContinue
    \/ MainOuterExcept

Spec == Init /\ [][Next]_vars

\* The program runs on: the statements of run_transaction and of main are
\* executed one after the other, the unit of work and time.sleep return.
FairSpec == Spec /\ WF_vars(Next)

\* ------------------------------------------------------------------ claims
Outcomes == {hist[i] : i \in 1..Len(hist)}

Conflicts == Cardinality({i \in 1..Len(hist) : hist[i] = "SerializationFailure"})

IsPrefix(s, t) == Len(s) <= Len(t) /\ SubSeq(t, 1, Len(s)) = s

\* The call main makes: run_transaction(conn, lambda conn:
\* transfer_funds(conn, fromId, toId, amount)) with the default max_retries.
MainCall ==
    /\ frm = fromId
    /\ to = toId
    /\ amount = MainAmount
    /\ max_retries = DefaultMaxRetries

\* C1: when the unit of work raises SerializationFailure exactly k times,
\* k < max_retries, and then succeeds, run_transaction returns success after
\* exactly k + 1 invocations of the unit of work and exactly k sleeps; and a
\* call that returned success made one invocation and no sleep more than the
\* conflicts it met.
C1_RetryThenSucceed ==
    /\ (Terminal /\ plan.final = "None" /\ plan.k < max_retries
                 /\ "RuntimeError" \notin Outcomes)
         => /\ pc = "returned"
            /\ exc = "None"
            /\ Conflicts = plan.k
            /\ invocations = plan.k + 1
            /\ sleeps = plan.k
    /\ pc = "returned"
         => /\ Conflicts < max_retries
            /\ invocations = Conflicts + 1
            /\ sleeps = Conflicts

C1_Witness ==
    /\ pc = "returned"
    /\ plan.k = 2
    /\ invocations = 3
    /\ sleeps = 2

C3_FatalPropagates ==
    \A i \in 1..Len(hist) :
        hist[i] = "Error"
          => /\ i = Len(hist)
             /\ invocations = i
             /\ pc \in {"except_error", "exit", "raised", "main_outer",
                       "main_done"}
             /\ exc = "Error"
             /\ sleeps = i - 1
             /\ rollbacks = i - 1

C3_Witness ==
    /\ pc = "raised"
    /\ exc = "Error"
    /\ invocations = 2
    /\ sleeps = 1

\* C4: when the unit of work raises RuntimeError (insufficient funds), no
\* except clause of run_transaction takes it: it is the last invocation, no
\* rollback-and-retry and no sleep follows, and the call ends with that
\* RuntimeError, never with ValueError.
C4_BusinessErrorPropagates ==
    \A i \in 1..Len(hist) :
        hist[i] = "RuntimeError"
          => /\ i = Len(hist)
             /\ invocations = i
             /\ pc \in {"exit", "raised", "main_outer", "main_done"}
             /\ exc = "RuntimeError"
             /\ sleeps = i - 1
             /\ rollbacks = i - 1

C4_Witness ==
    /\ pc = "raised"
    /\ exc = "RuntimeError"
    /\ invocations = 2
    /\ sleeps = 1

\* C5: at most one transaction is open on the session in every state, and
\* when run_transaction has returned or raised no transaction is open: the
\* scope it entered was left by exactly one commit or one rollback.
C5_TransactionClosed ==
    /\ openTx <= 1
    /\ Terminal
         => /\ openTx = 0
            /\ begins = 1
            /\ commits + scopeRollbacks = 1

C5_Witness ==
    /\ pc = "raised"
    /\ exc = "Error"
    /\ writes > 0
    /\ openTx = 0
    /\ scopeRollbacks = 1

\* C6: when the unit of work always succeeds (and max_retries >= 1),
\* run_transaction returns success after exactly one invocation, with no
\* sleep and no rollback, and exactly one commit at the scope exit.
C6_SucceedsFirstTime ==
    (Terminal /\ max_retries >= 1 /\ plan.k = 0 /\ plan.final = "None"
              /\ "RuntimeError" \notin Outcomes)
      => /\ pc = "returned"
         /\ invocations = 1
         /\ sleeps = 0
         /\ rollbacks = 0
         /\ scopeRollbacks = 0
         /\ commits = 1

C6_Witness ==
    /\ pc = "returned"
    /\ plan.k = 0
    /\ invocations = 1
    /\ commits = 1
    /\ balances /= entry

C8_Original ==
    sleeps > 0
      => /\ sleep_seconds.n \in 1..max_retries
         /\ 2 * sleep_seconds.dur >= Pow2(sleep_seconds.n) * RandUnit
         /\ sleep_seconds.dur < Pow2(sleep_seconds.n) * RandUnit

\* C8 amended: each sleep after a conflict on attempt n (1..max_retries)
\* lasts at least 2^n * 0.1 * 0.5 and at most 2^n * 0.1 * 1.5 seconds: the
\* jitter multiplier random.random() + 0.5 lies in [0.5, 1.5].
C8_SleepWithinJitter ==
    sleeps > 0
      => /\ sleep_seconds.n \in 1..max_retries
         /\ 2 * sleep_seconds.dur >= Pow2(sleep_seconds.n) * RandUnit
         /\ 2 * sleep_seconds.dur <= 3 * Pow2(sleep_seconds.n) * RandUnit

C8_Witness ==
    /\ sleeps > 0
    /\ sleep_seconds.n = 2
    /\ 2 * sleep_seconds.dur = 3 * Pow2(sleep_seconds.n) * RandUnit

\* C9 as stated: in main's scenario the 250 account is debited and the 1000
\* account credited: after a successful call the balances are 1150 and 150.
C9_Original ==
    (MainCall /\ call = 1 /\ pc = "returned")
      => (balances[ids[1]] = 1150 /\ balances[ids[2]] = 150)

\* C9 amended: in main's scenario (accounts created with 1000 and 250,
\* amount 100) the transfer debits the 1000 account and credits the 250
\* account: after a successful call the balances are 900 and 350.
C9_MainTransfer ==
    (MainCall /\ call = 1 /\ pc = "returned")
      => /\ InitialBalances[frm] = 1000
         /\ InitialBalances[to] = 250
         /\ balances[ids[1]] = 900
         /\ balances[ids[2]] = 350

C9_Witness ==
    /\ MainCall
    /\ call = 1
    /\ pc = "returned"
    /\ balances[frm] = 900
    /\ sleeps = 1

\* C10: jitter never changes control flow: two calls with the same
\* max_retries whose unit-of-work outcomes agree (as far as both calls
\* observed them) end with the same number of invocations, sleeps,
\* rollbacks and commits and the same result, whatever delays were drawn.
C10_JitterOnlyTiming ==
    (Terminal /\ prev /= <<>>
              /\ (IsPrefix(prev[1].hist, hist) \/ IsPrefix(hist, prev[1].hist)))
      => prev[1].events = Events

C10_Witness ==
    /\ Terminal
    /\ prev /= <<>>
    /\ prev[1].hist = hist
    /\ sleeps = 2
    /\ prev[1].long /= SleptLong
    /\ prev[1].events = Events

\* What main logged or did after the call, by kind.
Did(kind) == \E i \in 1..Len(output) : output[i][1] = kind

C12_RollbackSleepRetry ==
    /\ sleeps <= rollbacks
    /\ rollbacks <= sleeps + 1
    /\ rollbacks <= Conflicts
    /\ Conflicts <= rollbacks + 1
    /\ pc = "except_serialization"
         => (rollbacks = Conflicts - 1 /\ sleeps = Conflicts - 1)
    /\ pc = "sleep" => (rollbacks = Conflicts /\ sleeps = Conflicts - 1)
    /\ pc = "try"
         => /\ Conflicts = invocations
            /\ rollbacks = invocations
            /\ sleeps = invocations

C12_Witness ==
    /\ pc = "try"
    /\ invocations = 2
    /\ rollbacks = 2
    /\ sleeps = 2
    /\ sleep_seconds.n = 2

\* The positions inside the body of the for loop of run_transaction.
InLoopBody ==
    pc \in {"try", "return", "except_serialization", "except_error", "sleep"}

\* C13: every call of run_transaction ends (it returns or raises); inside
\* the loop the counter retry is within 1..max_retries; the unit of work is
\* invoked at most max_retries times per call; and the counter of a call
\* numbers its invocations from 1, also on a later call.
C13_Terminates ==
    /\ [](InLoopBody => retry \in 1..max_retries)
    /\ [](invocations <= (IF max_retries > 0 THEN max_retries ELSE 0))
    /\ [](pc = "try" => retry = invocations + 1)
    /\ [](InLoopBody /\ pc /= "try" => retry = invocations)
    /\ (pc = "for" ~> Terminal)

C13_Witness ==
    /\ call = 2
    /\ prev /= <<>>
    /\ prev[1].events.invocations = 3
    /\ pc = "try"
    /\ retry = 1
    /\ invocations = 0

\* C14 as stated: jitter aside, the delay after the first, second and third
\* serialization failure of a call is 0.1 s, 0.2 s and 0.4 s: the delay
\* slept after failure number j is 2^(j-1) * 0.1 s times a jitter multiplier.
C14_Original ==
    sleeps > 0
      => \E k \in Random :
            sleep_seconds.dur = Pow2(sleeps - 1) * AddHalf(k)

\* C14 amended: the un-jittered delay doubles with each failed attempt and
\* starts at 0.2 s: after the first, second and third serialization failure
\* of a call it is 0.2 s, 0.4 s and 0.8 s (2^j * 0.1 s after failure j).
C14_BackoffBase ==
    sleeps > 0
      => /\ sleep_seconds.n = sleeps
         /\ \E k \in Random :
               sleep_seconds.dur = Pow2(sleeps) * AddHalf(k)

C14_Witness ==
    /\ sleeps = 3
    /\ sleep_seconds.n = 3
    /\ sleep_seconds.dur = 8 * RandUnit

\* C15: one invocation of transfer_funds(conn, frm, to, amount): when it
\* raises the insufficient-funds RuntimeError the source balance was below
\* amount and no balance changed; a source balance below amount never leads
\* to a transfer; and when it returns, frm is debited by amount, to is
\* credited by amount, their sum is unchanged and every other row is
\* untouched.
C15_TransferFrame ==
    [][pc = "try"
         => /\ exc' = "RuntimeError"
                 => (balances[frm] < amount /\ balances' = balances)
            /\ balances[frm] < amount
                 => (exc' /= "None" /\ balances' = balances)
            /\ exc' = "None"
                 => /\ balances[frm] >= amount
                    /\ balances'[frm] = balances[frm] - amount
                    /\ balances'[to] = balances[to] + amount
                    /\ balances'[frm] + balances'[to]
                         = balances[frm] + balances[to]
                    /\ \A a \in DOMAIN balances \ {frm, to} :
                          balances'[a] = balances[a]]_vars

C15_Witness ==
    /\ pc = "return"
    /\ invocations = 2
    /\ balances[frm] = snapshot[frm] - amount
    /\ balances[to] = snapshot[to] + amount
    /\ \A a \in Bystanders : balances[a] = snapshot[a]

\* C16: within one call the number of sleeps equals the number of
\* serialization failures raised by the unit of work, as does the number of
\* explicit rollbacks, once the handler of a failure has run; this includes
\* the last attempt: when ValueError is raised after max_retries attempts
\* there were max_retries rollbacks and max_retries sleeps, the last sleep
\* following attempt number max_retries.
C16_SleepsEqualConflicts ==
    /\ pc \notin {"except_serialization", "sleep"}
         => (sleeps = Conflicts /\ rollbacks = Conflicts)
    /\ (pc = "raised" /\ exc = "ValueError" /\ max_retries >= 1)
         => /\ invocations = max_retries
            /\ rollbacks = max_retries
            /\ sleeps = max_retries
            /\ sleep_seconds.n = max_retries

C16_Witness ==
    /\ pc = "raised"
    /\ exc = "ValueError"
    /\ max_retries = 2
    /\ invocations = 2
    /\ rollbacks = 2
    /\ sleeps = 2
    /\ sleep_seconds.n = 2

\* The positions inside the with block of run_transaction.
InScope ==
    pc \in {"for", "try", "return", "except_serialization", "except_error",
            "sleep", "exit"}

\* C17: the transaction scope is entered exactly once per call, outside the
\* loop; conn.rollback() is called while that scope is still open (no commit
\* or rollback by the scope exit has happened yet); attempts 2..max_retries
\* invoke the unit of work with no new scope entered, on a session whose
\* transaction was rolled back; and the scope's exit commit or rollback
\* comes after those explicit rollbacks.
C17_ScopeOutsideLoop ==
    /\ call >= 1 => begins = 1
    /\ InScope => (commits = 0 /\ scopeRollbacks = 0)
    /\ pc = "sleep" => (openTx = 0 /\ rollbacks >= 1)
    /\ (pc = "try" /\ retry >= 2)
         => (begins = 1 /\ openTx = 0 /\ rollbacks = retry - 1)
    /\ (Terminal /\ rollbacks >= 1) => commits + scopeRollbacks = 1

C17_Witness ==
    /\ pc = "returned"
    /\ retry = 3
    /\ rollbacks = 2
    /\ begins = 1
    /\ commits = 1

C19_NoAttempts ==
    /\ max_retries <= 0 => (invocations = 0 /\ sleeps = 0 /\ hist = <<>>)
    /\ (Terminal /\ max_retries <= 0)
         => /\ pc = "raised"
            /\ exc = "ValueError"
            /\ exc_arg = max_retries
            /\ rollbacks = 0
            /\ commits = 0
            /\ scopeRollbacks = 1
            /\ openTx = 0
            /\ balances = entry

C19_Witness ==
    /\ pc = "raised"
    /\ max_retries = 0
    /\ exc = "ValueError"
    /\ exc_arg = 0
    /\ invocations = 0
    /\ scopeRollbacks = 1

====
